---- MODULE Spec2Model ----
(***************************************************************************)
(* A model of printpdf's PdfDocument (src/api/types/pdf_document.rs): the  *)
(* page / layer / marker tree, the content registry, the current marker    *)
(* and the operations of the document-authoring API.                       *)
(*                                                                         *)
(* Rust vectors are 0-indexed, TLA+ sequences 1-indexed: element i of a    *)
(* Vec is s[i + 1] here, and every index the API hands out is 0-based.     *)
(***************************************************************************)
EXTENDS Naturals, Sequences, FiniteSets

VARIABLES
    pages,            \* PdfDocument.pages: Vec<PdfPage>
    contents,         \* PdfDocument.contents: Vec<Box<IntoPdfObject>>
    current_marker,   \* PdfDocument.current_marker: PdfMarkerIndex
    target,           \* the objects written to the `target` handed to save
    pc,               \* "live", "dropped" (self was consumed) or "aborted" (panic)
    last,             \* the last call: [op, arg, ret]
    issued_markers,   \* history: every marker index add_marker returned, with its (x, y)
    issued_contents,  \* history: every content index a registration returned, in order
    text_refs         \* history: [font, uses] for each font index a successful add_text
                      \* on an existing layer was given; uses is 1 after one such
                      \* call, 2 after two or more

vars == <<pages, contents, current_marker, target, pc, last,
          issued_markers, issued_contents, text_refs>>

----------------------------------------------------------------------------
(* Bounds of the model.                                                    *)

\* Total number of nodes (pages + layers + markers + registered contents).
MaxSize == 4
\* (x_mm, y_mm) of the pages the callers create
PageSizes == {<<210, 297>>}
\* (x_mm, y_mm) of the markers the callers create
Points == {<<10, 20>>, <<30, 40>>}
LayerNames == {"L1"}
\* Font streams handed to add_font; Font::new parses the first, rejects the second
FontStreams == {"ttf", "garbage"}
ValidFontStreams == {"ttf"}
\* Arbitrary content handed to add_arbitrary_content
ArbitraryContents == {"object"}

----------------------------------------------------------------------------
(* Results: Rust's Result<T, Error>, and a panic of the call.              *)

Ok(v) == [tag |-> "Ok", val |-> v]
Err(e) == [tag |-> "Err", val |-> e]
Panic(m) == [tag |-> "Panic", val |-> m]

IsOk(r) == r.tag = "Ok"
IsErr(r) == r.tag = "Err"

\* errors::index_error::ErrorKind
PdfPageIndexError == "PdfPageIndexError"
PdfLayerIndexError == "PdfLayerIndexError"
PdfMarkerIndexError == "PdfMarkerIndexError"
\* the error of Font::new
FontParseError == "FontParseError"

IsAddressError(r) ==
    IsErr(r) /\ r.val \in {PdfPageIndexError, PdfLayerIndexError, PdfMarkerIndexError}

\* Vec::get(i): Some(v[i]) if i < len, None otherwise; here with ok_or(e) applied
VecGetOr(v, i, e) == IF i < Len(v) THEN Ok(v[i + 1]) ELSE Err(e)

----------------------------------------------------------------------------
(* PdfMarker, PdfLayer, PdfPage: the nodes of the tree.                    *)

PdfMarker_new(x_mm, y_mm) == [x |-> x_mm, y |-> y_mm]

PdfLayer_new(name) == [name |-> name, markers |-> <<>>]

PdfPage_new(x_mm, y_mm) == [width |-> x_mm, height |-> y_mm, layers |-> <<>>]

\* PdfLayer::add_marker: push the marker, return the layer and the marker's slot
PdfLayer_add_marker(layer, x_mm, y_mm) ==
    LET markers2 == Append(layer.markers, PdfMarker_new(x_mm, y_mm))
    IN  [node |-> [layer EXCEPT !.markers = markers2], index |-> Len(markers2) - 1]

\* PdfLayer::get_marker / get_mut_marker
PdfLayer_get_marker(layer, marker) ==
    VecGetOr(layer.markers, marker, PdfMarkerIndexError)

\* PdfPage::add_layer: push the layer, return the page and the layer's slot
PdfPage_add_layer(page, name) ==
    LET layers2 == Append(page.layers, PdfLayer_new(name))
    IN  [node |-> [page EXCEPT !.layers = layers2], index |-> Len(layers2) - 1]

\* PdfPage::get_layer / get_mut_layer
PdfPage_get_layer(page, layer) ==
    VecGetOr(page.layers, layer, PdfLayerIndexError)

----------------------------------------------------------------------------
(* The size of the document, for the bound.                                *)

RECURSIVE LayersSize(_)
LayersSize(layers) ==
    IF layers = <<>> THEN 0
    ELSE 1 + Len(Head(layers).markers) + LayersSize(Tail(layers))

RECURSIVE PagesSize(_)
PagesSize(ps) ==
    IF ps = <<>> THEN 0
    ELSE 1 + LayersSize(Head(ps).layers) + PagesSize(Tail(ps))

DocSize == PagesSize(pages) + Len(contents)

(* The indices the callers try.  Every accessor compares an index with a   *)
(* length only (Vec::get), so an index past the end behaves as the first   *)
(* index past the end: each component ranges from 0 to the largest length  *)
(* in the tree, which is in range for some nodes and out of range for the  *)
(* others.                                                                 *)
Max(S) == CHOOSE n \in S : \A m \in S : m <= n

LayerCounts == {Len(pages[p].layers) : p \in DOMAIN pages}
MarkerCounts ==
    UNION {{Len(pages[p].layers[l].markers) : l \in DOMAIN pages[p].layers} :
              p \in DOMAIN pages}

PageIdx == 0 .. Len(pages)
LayerIdx == 0 .. Max(LayerCounts)
MarkerIdx == 0 .. Max(MarkerCounts \cup {0})

----------------------------------------------------------------------------
(* PdfDocument: the operations as functions of the fields they read, each  *)
(* giving the fields it writes and the value it returns.                   *)

\* get_page: self.pages.get(*page).ok_or(IndexError(PdfPageIndexError))
get_page(ps, page) == VecGetOr(ps, page, PdfPageIndexError)

\* get_mut_page: self.pages.get_mut(*page).ok_or(IndexError(PdfPageIndexError))
get_mut_page(ps, page) == VecGetOr(ps, page, PdfPageIndexError)

\* get_layer: self.get_page(&layer.0)?.get_layer(&layer.1)?
get_layer(ps, layer) ==
    LET p == get_page(ps, layer[1])
    IN  IF ~IsOk(p) THEN p ELSE PdfPage_get_layer(p.val, layer[2])

\* get_mut_layer: self.get_mut_page(&layer.0)?.get_mut_layer(&layer.1)?
get_mut_layer(ps, layer) ==
    LET p == get_mut_page(ps, layer[1])
    IN  IF ~IsOk(p) THEN p ELSE PdfPage_get_layer(p.val, layer[2])

\* Variant of get_marker: every failure of the chain reported as one generic error
get_marker_GenericError(ps, marker) ==
    IF /\ marker[1] < Len(ps)
       /\ marker[2] < Len(ps[marker[1] + 1].layers)
       /\ marker[3] < Len(ps[marker[1] + 1].layers[marker[2] + 1].markers)
    THEN Ok(ps[marker[1] + 1].layers[marker[2] + 1].markers[marker[3] + 1])
    ELSE Err(PdfMarkerIndexError)

\* get_marker: self.get_page(&marker.0)?.get_layer(&marker.1)?.get_marker(&marker.2)?
get_marker(ps, marker) ==
    LET p == get_page(ps, marker[1])
    IN  IF ~IsOk(p) THEN p
        ELSE LET l == PdfPage_get_layer(p.val, marker[2])
             IN  IF ~IsOk(l) THEN l ELSE PdfLayer_get_marker(l.val, marker[3])

\* get_mut_marker: the same chain through the mutable accessors
get_mut_marker(ps, marker) ==
    LET p == get_mut_page(ps, marker[1])
    IN  IF ~IsOk(p) THEN p
        ELSE LET l == PdfPage_get_layer(p.val, marker[2])
             IN  IF ~IsOk(l) THEN l ELSE PdfLayer_get_marker(l.val, marker[3])

\* Variant of add_page: returns the length after the push, not the last slot
add_page_OffByOne(ps, x_mm, y_mm) ==
    LET ps2 == Append(ps, PdfPage_new(x_mm, y_mm))
    IN  [pages |-> ps2, ret |-> Len(ps2)]

\* Variant of add_page: the page is inserted at the front of the sequence
add_page_AtFront(ps, x_mm, y_mm) ==
    [pages |-> <<PdfPage_new(x_mm, y_mm)>> \o ps, ret |-> 0]

\* Variant of add_page: the new page starts with the layers of the last page
add_page_KeepsLayers(ps, x_mm, y_mm) ==
    LET ps2 == Append(ps, [PdfPage_new(x_mm, y_mm) EXCEPT
                              !.layers = ps[Len(ps)].layers])
    IN  [pages |-> ps2, ret |-> Len(ps2) - 1]

\* add_page: self.pages.push(PdfPage::new(x_mm, y_mm)); self.pages.len() - 1
add_page(ps, x_mm, y_mm) ==
    LET ps2 == Append(ps, PdfPage_new(x_mm, y_mm))
    IN  [pages |-> ps2, ret |-> Len(ps2) - 1]

\* Variant of add_layer: a page is pushed before the page index is checked
add_layer_PushBeforeCheck(ps, name, page) ==
    LET p == get_mut_page(ps, page)
    IN  IF ~IsOk(p)
        THEN [pages |-> Append(ps, PdfPage_new(210, 297)), ret |-> p]
        ELSE LET a == PdfPage_add_layer(p.val, name)
             IN  [pages |-> [ps EXCEPT ![page + 1] = a.node],
                  ret |-> Ok(<<page, a.index>>)]

\* Variant of add_layer: returns the number of layers, not the new layer's slot
add_layer_CountAsSlot(ps, name, page) ==
    LET p == get_mut_page(ps, page)
    IN  IF ~IsOk(p) THEN [pages |-> ps, ret |-> p]
        ELSE LET a == PdfPage_add_layer(p.val, name)
             IN  [pages |-> [ps EXCEPT ![page + 1] = a.node],
                  ret |-> Ok(<<page, a.index + 1>>)]

\* Variant of add_layer: the page is checked, the layer goes to the first page
add_layer_IntoFirstPage(ps, name, page) ==
    LET p == get_mut_page(ps, page)
    IN  IF ~IsOk(p) THEN [pages |-> ps, ret |-> p]
        ELSE LET a == PdfPage_add_layer(ps[1], name)
             IN  [pages |-> [ps EXCEPT ![1] = a.node],
                  ret |-> Ok(<<page, a.index>>)]

\* add_layer: self.get_mut_page(page)?.add_layer(name); Ok((*page, layer_index))
add_layer(ps, name, page) ==
    LET p == get_mut_page(ps, page)
    IN  IF ~IsOk(p) THEN [pages |-> ps, ret |-> p]
        ELSE LET a == PdfPage_add_layer(p.val, name)
             IN  [pages |-> [ps EXCEPT ![page + 1] = a.node],
                  ret |-> Ok(<<page, a.index>>)]

\* Variant of add_marker: a missing page is reported as a missing layer
add_marker_PageAsLayerError(ps, x_mm, y_mm, layer) ==
    LET p == get_mut_page(ps, layer[1])
    IN  IF ~IsOk(p) THEN [pages |-> ps, ret |-> Err(PdfLayerIndexError)]
        ELSE LET l == PdfPage_get_layer(p.val, layer[2])
             IN  IF ~IsOk(l) THEN [pages |-> ps, ret |-> l]
                 ELSE LET a == PdfLayer_add_marker(l.val, x_mm, y_mm)
                          page2 == [p.val EXCEPT !.layers[layer[2] + 1] = a.node]
                      IN  [pages |-> [ps EXCEPT ![layer[1] + 1] = page2],
                           ret |-> Ok(<<layer[1], layer[2], a.index>>)]

\* Variant of add_marker: the coordinates are handed on in the wrong order
add_marker_SwappedCoordinates(ps, x_mm, y_mm, layer) ==
    LET p == get_mut_page(ps, layer[1])
    IN  IF ~IsOk(p) THEN [pages |-> ps, ret |-> p]
        ELSE LET l == PdfPage_get_layer(p.val, layer[2])
             IN  IF ~IsOk(l) THEN [pages |-> ps, ret |-> l]
                 ELSE LET a == PdfLayer_add_marker(l.val, y_mm, x_mm)
                          page2 == [p.val EXCEPT !.layers[layer[2] + 1] = a.node]
                      IN  [pages |-> [ps EXCEPT ![layer[1] + 1] = page2],
                           ret |-> Ok(<<layer[1], layer[2], a.index>>)]

\* add_marker: self.get_mut_page(&layer.0)?.get_mut_layer(&layer.1)?
\*                 .add_marker(x_mm, y_mm); Ok((layer.0, layer.1, marker_index))
add_marker(ps, x_mm, y_mm, layer) ==
    LET p == get_mut_page(ps, layer[1])
    IN  IF ~IsOk(p) THEN [pages |-> ps, ret |-> p]
        ELSE LET l == PdfPage_get_layer(p.val, layer[2])
             IN  IF ~IsOk(l) THEN [pages |-> ps, ret |-> l]
                 ELSE LET a == PdfLayer_add_marker(l.val, x_mm, y_mm)
                          page2 == [p.val EXCEPT !.layers[layer[2] + 1] = a.node]
                      IN  [pages |-> [ps EXCEPT ![layer[1] + 1] = page2],
                           ret |-> Ok(<<layer[1], layer[2], a.index>>)]

\* Variant of add_arbitrary_content: content equal to a registered item is not
\* pushed again, the index of the registered item is returned
add_arbitrary_content_Dedup(cs, content) ==
    IF \E i \in DOMAIN cs : cs[i] = content
    THEN [contents |-> cs,
          ret |-> (CHOOSE i \in DOMAIN cs : cs[i] = content) - 1]
    ELSE [contents |-> Append(cs, content), ret |-> Len(cs)]

\* add_arbitrary_content: self.contents.push(content); self.contents.len() - 1
add_arbitrary_content(cs, content) ==
    LET cs2 == Append(cs, content)
    IN  [contents |-> cs2, ret |-> Len(cs2) - 1]

\* Font::new(font_stream): the parsed font, or the parse error
Font_new(font_stream) ==
    IF font_stream \in ValidFontStreams
    THEN Ok([kind |-> "Font", data |-> font_stream])
    ELSE Err(FontParseError)

\* FontIndex(index)
FontIndex(index) == <<"FontIndex", index>>

\* Variant of add_font: the stream is registered before it is parsed
add_font_PushBeforeParse(cs, font_stream) ==
    LET a == add_arbitrary_content(cs, [kind |-> "Font", data |-> font_stream])
        font == Font_new(font_stream)
    IN  IF ~IsOk(font) THEN [contents |-> a.contents, ret |-> font]
        ELSE [contents |-> a.contents, ret |-> Ok(FontIndex(a.ret))]

\* add_font: let font = Font::new(font_stream)?;
\*           Ok(FontIndex(self.add_arbitrary_content(Box::new(font))))
add_font(cs, font_stream) ==
    LET font == Font_new(font_stream)
    IN  IF ~IsOk(font) THEN [contents |-> cs, ret |-> font]
        ELSE LET a == add_arbitrary_content(cs, font.val)
             IN  [contents |-> a.contents, ret |-> Ok(FontIndex(a.ret))]

\* add_text: // todo
\*           Ok(())
add_text(ps, text, font, font_size, position) == [pages |-> ps, ret |-> Ok(<<>>)]

\* get_inner: self.get_marker(&self.current_marker).unwrap().clone(), then
\*            (self.inner, self.contents, marker)
get_inner(ps, cs, cm) ==
    LET m == get_marker(ps, cm)
    IN  IF IsOk(m) THEN Ok(<<cs, m.val>>)
        ELSE Panic("unwrap on Err")

\* Variant of set_current_marker: a marker that does not resolve is not taken
set_current_marker_Validated(marker) ==
    IF IsOk(get_marker(pages, marker)) THEN marker ELSE current_marker

\* set_current_marker: self.current_marker = *marker
set_current_marker(marker) == marker

\* save: unimplemented!()
save(ps, cs) == Panic("unimplemented")

----------------------------------------------------------------------------
(* The state after PdfDocument::new(initial_page, title, creator).          *)

\* The pages a caller can hand to new: built by PdfPage::new, add_layer and
\* the layer's add_marker.
InitialPages ==
    LET empty == PdfPage_new(210, 297)
        layer == PdfPage_add_layer(empty, "L1").node
        marked == [layer EXCEPT
                     !.layers[1] = PdfLayer_add_marker(@, 10, 20).node]
    IN  {empty, layer, marked}

\* Variant of new: the initial page is not put into pages
Init_NoPages ==
    /\ pages = <<>>
    /\ contents = <<>>
    /\ current_marker = <<0, 0, 0>>
    /\ target = <<>>
    /\ pc = "live"
    /\ last = [op |-> "new", arg |-> <<>>, ret |-> Ok(<<>>)]
    /\ issued_markers = {}
    /\ issued_contents = <<>>
    /\ text_refs = {}

\* new: pages: vec![initial_page], contents: Vec::new(), current_marker: (0, 0, 0)
Init ==
    /\ \E initial_page \in InitialPages : pages = <<initial_page>>
    /\ contents = <<>>
    /\ current_marker = <<0, 0, 0>>
    /\ target = <<>>
    /\ pc = "live"
    /\ last = [op |-> "new", arg |-> <<>>, ret |-> Ok(<<>>)]
    /\ issued_markers = {}
    /\ issued_contents = <<>>
    /\ text_refs = {}

----------------------------------------------------------------------------
(* The calls.  Each records itself in `last`; a call that returns a plain   *)
(* value is recorded as Ok of that value.  A call that grows the document   *)
(* is made only while the document is below MaxSize.                        *)

Call_add_page ==
    /\ pc = "live"
    /\ DocSize < MaxSize
    /\ \E size \in PageSizes :
          LET r == add_page(pages, size[1], size[2])
          IN  /\ pages' = r.pages
              /\ last' = [op |-> "add_page", arg |-> size, ret |-> Ok(r.ret)]
    /\ UNCHANGED <<contents, current_marker, target, pc,
                   issued_markers, issued_contents,
                   text_refs>>

Call_add_layer ==
    /\ pc = "live"
    /\ \E name \in LayerNames, page \in PageIdx :
          LET r == add_layer(pages, name, page)
          IN  /\ IsOk(r.ret) => DocSize < MaxSize
              /\ pages' = r.pages
              /\ last' = [op |-> "add_layer", arg |-> <<name, page>>, ret |-> r.ret]
    /\ UNCHANGED <<contents, current_marker, target, pc,
                   issued_markers, issued_contents,
                   text_refs>>

Call_add_marker ==
    /\ pc = "live"
    /\ \E point \in Points, layer \in PageIdx \X LayerIdx :
          LET r == add_marker(pages, point[1], point[2], layer)
          IN  /\ IsOk(r.ret) => DocSize < MaxSize
              /\ pages' = r.pages
              /\ last' = [op |-> "add_marker", arg |-> <<point, layer>>,
                          ret |-> r.ret]
              /\ issued_markers' =
                    IF IsOk(r.ret)
                    THEN issued_markers \cup
                           {[index |-> r.ret.val, x |-> point[1], y |-> point[2]]}
                    ELSE issued_markers
    /\ UNCHANGED <<contents, current_marker, target, pc, issued_contents, text_refs>>

Call_add_arbitrary_content ==
    /\ pc = "live"
    /\ DocSize < MaxSize
    /\ \E data \in ArbitraryContents :
          LET r == add_arbitrary_content(contents, [kind |-> "Object", data |-> data])
          IN  /\ contents' = r.contents
              /\ last' = [op |-> "add_arbitrary_content", arg |-> data,
                          ret |-> Ok(r.ret)]
              /\ issued_contents' = Append(issued_contents, r.ret)
    /\ UNCHANGED <<pages, current_marker, target, pc, issued_markers, text_refs>>

Call_add_font ==
    /\ pc = "live"
    /\ \E font_stream \in FontStreams :
          LET r == add_font(contents, font_stream)
          IN  /\ IsOk(r.ret) => DocSize < MaxSize
              /\ contents' = r.contents
              /\ last' = [op |-> "add_font", arg |-> font_stream, ret |-> r.ret]
              /\ issued_contents' =
                    IF IsOk(r.ret) THEN Append(issued_contents, r.ret.val[2])
                    ELSE issued_contents
    /\ UNCHANGED <<pages, current_marker, target, pc, issued_markers, text_refs>>

\* The FontIndex values the caller holds: those add_font returned.
IssuedFonts ==
    {FontIndex(i - 1) : i \in {j \in DOMAIN contents : contents[j].kind = "Font"}}

\* text_refs after one more counted add_text with the font of index i
TextRefsAfter(refs, i) ==
    {r \in refs : r.font # i} \cup
        {[font |-> i, uses |-> IF \E r \in refs : r.font = i THEN 2 ELSE 1]}

\* add_text is to place a drawable that references a font: the fonts
\* referenced are counted with the nodes of the document for the bound.
\* text_refs counts the calls that succeed on a layer that exists, the calls
\* after which the layer is to hold one more drawable.
Call_add_text ==
    /\ pc = "live"
    /\ \E font \in IssuedFonts, position \in PageIdx \X LayerIdx \X MarkerIdx :
          LET r == add_text(pages, "hello", font, 12, position)
              placed == /\ IsOk(r.ret)
                        /\ IsOk(get_layer(pages, <<position[1], position[2]>>))
          IN  /\ \/ \E t \in text_refs : t.font = font[2]
                 \/ DocSize + Cardinality(text_refs) < MaxSize
              /\ pages' = r.pages
              /\ last' = [op |-> "add_text", arg |-> <<font, position>>, ret |-> r.ret]
              /\ text_refs' =
                    IF placed THEN TextRefsAfter(text_refs, font[2]) ELSE text_refs
    /\ UNCHANGED <<contents, current_marker, target, pc,
                   issued_markers, issued_contents>>

Call_get_page ==
    /\ pc = "live"
    /\ \E page \in PageIdx :
          last' = [op |-> "get_page", arg |-> page, ret |-> get_page(pages, page)]
    /\ UNCHANGED <<pages, contents, current_marker, target, pc,
                   issued_markers, issued_contents,
                   text_refs>>

Call_get_mut_page ==
    /\ pc = "live"
    /\ \E page \in PageIdx :
          last' = [op |-> "get_mut_page", arg |-> page,
                   ret |-> get_mut_page(pages, page)]
    /\ UNCHANGED <<pages, contents, current_marker, target, pc,
                   issued_markers, issued_contents,
                   text_refs>>

Call_get_layer ==
    /\ pc = "live"
    /\ \E layer \in PageIdx \X LayerIdx :
          last' = [op |-> "get_layer", arg |-> layer, ret |-> get_layer(pages, layer)]
    /\ UNCHANGED <<pages, contents, current_marker, target, pc,
                   issued_markers, issued_contents,
                   text_refs>>

Call_get_mut_layer ==
    /\ pc = "live"
    /\ \E layer \in PageIdx \X LayerIdx :
          last' = [op |-> "get_mut_layer", arg |-> layer,
                   ret |-> get_mut_layer(pages, layer)]
    /\ UNCHANGED <<pages, contents, current_marker, target, pc,
                   issued_markers, issued_contents,
                   text_refs>>

Call_get_marker ==
    /\ pc = "live"
    /\ \E marker \in PageIdx \X LayerIdx \X MarkerIdx :
          last' = [op |-> "get_marker", arg |-> marker,
                   ret |-> get_marker(pages, marker)]
    /\ UNCHANGED <<pages, contents, current_marker, target, pc,
                   issued_markers, issued_contents,
                   text_refs>>

Call_get_mut_marker ==
    /\ pc = "live"
    /\ \E marker \in PageIdx \X LayerIdx \X MarkerIdx :
          last' = [op |-> "get_mut_marker", arg |-> marker,
                   ret |-> get_mut_marker(pages, marker)]
    /\ UNCHANGED <<pages, contents, current_marker, target, pc,
                   issued_markers, issued_contents,
                   text_refs>>

\* get_inner takes self by value: the document is gone after the call, and the
\* failed unwrap aborts the caller.
Call_get_inner ==
    /\ pc = "live"
    /\ LET r == get_inner(pages, contents, current_marker)
       IN  /\ last' = [op |-> "get_inner", arg |-> current_marker, ret |-> r]
           /\ pc' = IF IsOk(r) THEN "dropped" ELSE "aborted"
    /\ UNCHANGED <<pages, contents, current_marker, target,
                   issued_markers, issued_contents,
                   text_refs>>

Call_set_current_marker ==
    /\ pc = "live"
    /\ \E marker \in PageIdx \X LayerIdx \X MarkerIdx :
          /\ current_marker' = set_current_marker(marker)
          /\ last' = [op |-> "set_current_marker", arg |-> marker, ret |-> Ok(<<>>)]
    /\ UNCHANGED <<pages, contents, target, pc, issued_markers, issued_contents,
                   text_refs>>

\* save takes self by value and writes nothing to target before it panics.
Call_save ==
    /\ pc = "live"
    /\ LET r == save(pages, contents)
       IN  /\ last' = [op |-> "save", arg |-> <<>>, ret |-> r]
           /\ pc' = IF IsOk(r) THEN "dropped" ELSE "aborted"
    /\ UNCHANGED <<pages, contents, current_marker, target,
                   issued_markers, issued_contents,
                   text_refs>>

Next ==
    \/ Call_add_page
    \/ Call_add_layer
    \/ Call_add_marker
    \/ Call_add_arbitrary_content
    \/ Call_add_font
    \/ Call_add_text
    \/ Call_get_page
    \/ Call_get_mut_page
    \/ Call_get_layer
    \/ Call_get_mut_layer
    \/ Call_get_marker
    \/ Call_get_mut_marker
    \/ Call_get_inner
    \/ Call_set_current_marker
    \/ Call_save

Spec == Init /\ [][Next]_vars

----------------------------------------------------------------------------
(* Properties.                                                             *)

PageInRange(ps, p) == p < Len(ps)
LayerInRange(ps, p, l) == PageInRange(ps, p) /\ l < Len(ps[p + 1].layers)
MarkerInRange(ps, p, l, m) ==
    LayerInRange(ps, p, l) /\ m < Len(ps[p + 1].layers[l + 1].markers)

HasError(r, e) == IsErr(r) /\ r.val = e

\* C1: each address a successful add_page, add_layer or add_marker returns
\* resolves through get_page, get_layer or get_marker right after the call.
C1_ReturnedAddressResolves ==
    /\ last.op = "add_page" => IsOk(get_page(pages, last.ret.val))
    /\ (last.op = "add_layer" /\ IsOk(last.ret)) =>
           IsOk(get_layer(pages, last.ret.val))
    /\ (last.op = "add_marker" /\ IsOk(last.ret)) =>
           IsOk(get_marker(pages, last.ret.val))

\* A marker was just added to a layer of the second page.
C1_Witness ==
    /\ last.op = "add_marker"
    /\ IsOk(last.ret)
    /\ last.ret.val[1] = 1

\* The error the first failing link of an address gives, "none" if it resolves.
FirstFailingLink(ps, p, l, m) ==
    IF ~PageInRange(ps, p) THEN PdfPageIndexError
    ELSE IF ~LayerInRange(ps, p, l) THEN PdfLayerIndexError
    ELSE IF ~MarkerInRange(ps, p, l, m) THEN PdfMarkerIndexError
    ELSE "none"

\* C2: get_page, get_layer, get_marker and their mutable counterparts report
\* the first failing link: the page error whenever the page is out of range,
\* the layer error when the page exists and the layer is out of range, the
\* marker error when page and layer exist and the position is out of range.
C2_FirstFailingLink ==
    /\ last.op \in {"get_page", "get_mut_page"} =>
          (~PageInRange(pages, last.arg) =>
              HasError(last.ret, PdfPageIndexError))
    /\ last.op \in {"get_layer", "get_mut_layer"} =>
          LET e == FirstFailingLink(pages, last.arg[1], last.arg[2], 0)
          IN  e \in {PdfPageIndexError, PdfLayerIndexError} =>
                  HasError(last.ret, e)
    /\ last.op \in {"get_marker", "get_mut_marker"} =>
          LET e == FirstFailingLink(pages, last.arg[1], last.arg[2], last.arg[3])
          IN  e # "none" => HasError(last.ret, e)

\* get_marker was called with a page out of range and a layer and a position
\* that exist in page 0.
C2_Witness ==
    /\ last.op = "get_marker"
    /\ ~PageInRange(pages, last.arg[1])
    /\ MarkerInRange(pages, 0, last.arg[2], last.arg[3])
    /\ HasError(last.ret, PdfPageIndexError)

\* s is an initial part of t.
IsPrefix(s, t) == Len(s) <= Len(t) /\ \A i \in DOMAIN s : s[i] = t[i]

\* Every layer of ls is in ms at the same slot, with the same name and with
\* its markers an initial part of the markers it has in ms.
LayersKept(ls, ms) ==
    /\ Len(ls) <= Len(ms)
    /\ \A l \in DOMAIN ls :
          /\ ls[l].name = ms[l].name
          /\ IsPrefix(ls[l].markers, ms[l].markers)

\* Every page of ps is in qs at the same index, with the same dimensions and
\* its layers kept.
PagesKept(ps, qs) ==
    /\ Len(ps) <= Len(qs)
    /\ \A p \in DOMAIN ps :
          /\ ps[p].width = qs[p].width
          /\ ps[p].height = qs[p].height
          /\ LayersKept(ps[p].layers, qs[p].layers)

\* Every marker of ps is found by get_marker in qs at the address it has in ps.
MarkersResolveAlike(ps, qs) ==
    \A p \in DOMAIN ps : \A l \in DOMAIN ps[p].layers :
        \A m \in DOMAIN ps[p].layers[l].markers :
            get_marker(qs, <<p - 1, l - 1, m - 1>>) = Ok(ps[p].layers[l].markers[m])

\* C3: the tree is append-only: a step that changes the tree decreases neither
\* the number of pages nor that of a page's layers nor that of a layer's
\* markers, keeps every entry at its index, and a marker address that
\* resolved resolves to the same marker after the step.
C3_AppendOnly ==
    [][\/ pages' = pages
       \/ /\ PagesKept(pages, pages')
          /\ MarkersResolveAlike(pages, pages')]_vars

\* A page was appended to a document whose first page holds a marker.
C3_Witness ==
    /\ last.op = "add_page"
    /\ MarkerInRange(pages, 0, 0, 0)
    /\ Len(pages) >= 2

\* C4: add_layer(name, page) fails with the page error when page is out of
\* range and changes nothing; otherwise it appends exactly one layer, named
\* name and without markers, to that page and returns (page, k), k the slot
\* of the new layer.
C4_AddLayer ==
    [][last'.op = "add_layer" =>
         LET name == last'.arg[1]
             page == last'.arg[2]
         IN  IF ~PageInRange(pages, page)
             THEN /\ HasError(last'.ret, PdfPageIndexError)
                  /\ pages' = pages
             ELSE LET k == Len(pages[page + 1].layers)
                  IN  /\ IsOk(last'.ret)
                      /\ last'.ret.val = <<page, k>>
                      /\ pages' = [pages EXCEPT ![page + 1].layers =
                                      Append(@, [name |-> name, markers |-> <<>>])]]_vars

\* A second layer was added to a page.
C4_Witness ==
    /\ last.op = "add_layer"
    /\ IsOk(last.ret)
    /\ last.ret.val[2] = 1

\* The effect of a successful add_marker(x, y, (p, l)) on the tree.
MarkerAppended(ps, x, y, p, l) ==
    [ps EXCEPT ![p + 1].layers[l + 1].markers = Append(@, [x |-> x, y |-> y])]

\* C5 as stated: add_marker(x, y, layer) fails with the layer error if the page
\* or the layer component is out of range; otherwise it appends one marker to
\* that layer and returns (page, layer, slot).
C5_Original ==
    [][last'.op = "add_marker" =>
         LET point == last'.arg[1]
             p == last'.arg[2][1]
             l == last'.arg[2][2]
         IN  IF ~LayerInRange(pages, p, l)
             THEN HasError(last'.ret, PdfLayerIndexError)
             ELSE /\ IsOk(last'.ret)
                  /\ last'.ret.val =
                        <<p, l, Len(pages[p + 1].layers[l + 1].markers)>>
                  /\ pages' = MarkerAppended(pages, point[1], point[2], p, l)]_vars

\* C5 amended: add_marker(x, y, layer) fails with the page error if the page
\* component is out of range and with the layer error if the page exists and
\* the layer component is out of range; otherwise it appends one marker at
\* (x, y) to that layer and returns (page, layer, slot).
C5_AddMarker ==
    [][last'.op = "add_marker" =>
         LET point == last'.arg[1]
             p == last'.arg[2][1]
             l == last'.arg[2][2]
         IN  IF ~PageInRange(pages, p)
             THEN HasError(last'.ret, PdfPageIndexError)
             ELSE IF ~LayerInRange(pages, p, l)
             THEN HasError(last'.ret, PdfLayerIndexError)
             ELSE /\ IsOk(last'.ret)
                  /\ last'.ret.val =
                        <<p, l, Len(pages[p + 1].layers[l + 1].markers)>>
                  /\ pages' = MarkerAppended(pages, point[1], point[2], p, l)]_vars

\* add_marker was called with a page out of range and failed with the page error.
C5_Witness ==
    /\ last.op = "add_marker"
    /\ ~PageInRange(pages, last.arg[2][1])
    /\ HasError(last.ret, PdfPageIndexError)

\* C6: every marker index add_marker returned resolves, in every later state,
\* through get_marker to a marker at the (x, y) given to that add_marker.
C6_MarkerRoundTrip ==
    \A r \in issued_markers :
        LET m == get_marker(pages, r.index)
        IN  IsOk(m) /\ m.val.x = r.x /\ m.val.y = r.y

\* A marker was added, then a later marker at another point, then the current
\* marker was set.
C6_Witness ==
    /\ last.op = "set_current_marker"
    /\ \E r, q \in issued_markers :
          r.index[3] < q.index[3] /\ <<r.x, r.y>> # <<q.x, q.y>>

RECURSIVE LayerCount(_)
LayerCount(ps) ==
    IF ps = <<>> THEN 0 ELSE Len(Head(ps).layers) + LayerCount(Tail(ps))

\* The number of objects of a kind written to target.
Emitted(kind) == Cardinality({i \in DOMAIN target : target[i].kind = kind})

\* C7: save on a document built by add_page, add_layer and add_marker succeeds
\* and writes one page object per page, one content-stream object per layer
\* and no resource object (no drawable references a registry entry).
C7_SaveEmitsPagesAndLayers ==
    last.op = "save" =>
        /\ IsOk(last.ret)
        /\ pc # "aborted"
        /\ Emitted("page") = Len(pages)
        /\ Emitted("content_stream") = LayerCount(pages)
        /\ Emitted("resource") = 0

\* No two entries of s are equal.
Distinct(s) == \A i, j \in DOMAIN s : i # j => s[i] # s[j]

\* C8: add_arbitrary_content never fails, returns the number of items
\* registered before the call and pushes the item, add_font does so when the
\* font parses, and the indices returned over the life of the document are
\* pairwise distinct, registrations of equal content included.
C8_FreshIndex ==
    [][/\ last'.op = "add_arbitrary_content" =>
             /\ IsOk(last'.ret)
             /\ last'.ret.val = Len(contents)
             /\ contents' = Append(contents, [kind |-> "Object", data |-> last'.arg])
       /\ (last'.op = "add_font" /\ IsOk(last'.ret)) =>
             /\ last'.ret.val = FontIndex(Len(contents))
             /\ contents' = Append(contents, [kind |-> "Font", data |-> last'.arg])
       /\ Distinct(issued_contents')]_vars

\* The same content was registered twice.
C8_Witness ==
    /\ Len(issued_contents) >= 2
    /\ contents[1] = contents[2]
    /\ last.op \in {"add_arbitrary_content", "add_font"}
    /\ IsOk(last.ret)

\* The calls that resolve an address given by the caller.
AddressOps ==
    {"add_layer", "add_marker", "get_page", "get_mut_page", "get_layer",
     "get_mut_layer", "get_marker", "get_mut_marker"}

\* C9: a call of add_layer, add_marker or a get_* accessor that returns an
\* address error leaves pages, layers, markers, the content registry and the
\* current marker as they were.
C9_AddressErrorChangesNothing ==
    [][(last'.op \in AddressOps /\ IsAddressError(last'.ret)) =>
          /\ pages' = pages
          /\ contents' = contents
          /\ current_marker' = current_marker]_vars

\* add_marker failed with the layer error on a document that holds a content
\* item and a page with a layer.
C9_Witness ==
    /\ last.op = "add_marker"
    /\ HasError(last.ret, PdfLayerIndexError)
    /\ Len(contents) >= 1
    /\ LayerInRange(pages, 0, 0)

\* The address a call resolves, as a marker address (missing components 0,
\* and for add_marker the layer it adds to, with the slot it exists at).
ResolvedAddress ==
    CASE last.op \in {"get_page", "get_mut_page"} -> <<last.arg, 0, 0>>
      [] last.op = "add_layer" -> <<last.arg[2], 0, 0>>
      [] last.op \in {"get_layer", "get_mut_layer"} -> <<last.arg[1], last.arg[2], 0>>
      [] last.op = "add_marker" -> <<last.arg[2][1], last.arg[2][2], 0>>
      [] last.op \in {"get_marker", "get_mut_marker", "get_inner"} -> last.arg

\* The first failing link of the address the last call resolved.
ResolutionFailure ==
    LET a == ResolvedAddress
    IN  CASE last.op \in {"get_page", "get_mut_page", "add_layer"} ->
                 IF PageInRange(pages, a[1]) THEN "none" ELSE PdfPageIndexError
          [] last.op \in {"get_layer", "get_mut_layer", "add_marker"} ->
                 IF ~PageInRange(pages, a[1]) THEN PdfPageIndexError
                 ELSE IF ~LayerInRange(pages, a[1], a[2]) THEN PdfLayerIndexError
                 ELSE "none"
          [] OTHER -> FirstFailingLink(pages, a[1], a[2], a[3])

\* C10: every failure to resolve an address is returned to the caller as an
\* address error; get_inner, which resolves the current marker, returns an
\* address error and does not abort when the current marker does not resolve.
C10_ResolutionFailureReturned ==
    (last.op \in AddressOps \cup {"get_inner"} /\ ResolutionFailure # "none") =>
        /\ IsAddressError(last.ret)
        /\ pc # "aborted"

\* C11: add_page always succeeds, appends exactly one page, of the given size
\* and without layers, at the end of the pages, and returns the number of
\* pages the document had before the call.
C11_AddPage ==
    [][last'.op = "add_page" =>
         /\ IsOk(last'.ret)
         /\ last'.ret.val = Len(pages)
         /\ pages' = Append(pages, [width |-> last'.arg[1],
                                     height |-> last'.arg[2],
                                     layers |-> <<>>])]_vars

\* A third page was added.
C11_Witness ==
    /\ last.op = "add_page"
    /\ last.ret.val = 2
    /\ Len(pages) = 3

\* C12: add_text with a registered font and a position validates the target
\* as add_marker does: it fails with an address error when the page or the
\* layer of the position is out of range, and otherwise appends to the target
\* layer one drawable that references the given registry index.
C12_AddTextValidates ==
    [][last'.op = "add_text" =>
         LET font == last'.arg[1]
             p == last'.arg[2][1]
             l == last'.arg[2][2]
         IN  IF ~LayerInRange(pages, p, l)
             THEN IsAddressError(last'.ret)
             ELSE LET before == pages[p + 1].layers[l + 1].markers
                      after == pages'[p + 1].layers[l + 1].markers
                  IN  /\ IsOk(last'.ret)
                      /\ Len(after) = Len(before) + 1
                      /\ IsPrefix(before, after)
                      /\ after[Len(after)].content = font[2]]_vars

\* The index a successful registration returned.
RegistrationIndex(call) ==
    IF call.op = "add_font" THEN call.ret.val[2] ELSE call.ret.val

RegistrationOps == {"add_arbitrary_content", "add_font"}

\* C13: an add_font that fails to parse its stream registers nothing: the
\* registry has the same entries as before the call, no index is handed out,
\* and a successful registration right after it returns the index the failed
\* call would have used.
C13_FailedFontNotRegistered ==
    [][/\ (last'.op = "add_font" /\ IsErr(last'.ret)) =>
             /\ contents' = contents
             /\ issued_contents' = issued_contents
       /\ (/\ last.op = "add_font" /\ IsErr(last.ret)
           /\ last'.op \in RegistrationOps /\ IsOk(last'.ret)) =>
             /\ RegistrationIndex(last') = Len(contents)
             /\ RegistrationIndex(last') = Len(issued_contents)]_vars

\* add_font failed on a registry whose last entry is a font registered before.
C13_Witness ==
    /\ last.op = "add_font"
    /\ IsErr(last.ret)
    /\ Len(contents) >= 1
    /\ contents[Len(contents)].kind = "Font"

\* C14: set_current_marker succeeds for every marker index, resolving or not,
\* sets the current marker to that index and leaves pages, layers, markers
\* and the content registry unchanged.
C14_SetCurrentMarker ==
    [][last'.op = "set_current_marker" =>
         /\ IsOk(last'.ret)
         /\ current_marker' = last'.arg
         /\ pages' = pages
         /\ contents' = contents]_vars

\* The current marker was set to an index that is not (0, 0, 0) and does not
\* resolve, in a document that holds a marker.
C14_Witness ==
    /\ last.op = "set_current_marker"
    /\ current_marker # <<0, 0, 0>>
    /\ current_marker = last.arg
    /\ ~MarkerInRange(pages, current_marker[1], current_marker[2], current_marker[3])
    /\ MarkerInRange(pages, 0, 0, 0)

\* The resource objects written to target for the registry entry of index i.
ResourcesFor(i) ==
    {j \in DOMAIN target : target[j].kind = "resource" /\ target[j].entry = i}

\* C15: when two or more drawables reference the same registry index, save
\* writes exactly one resource object for that entry, and every reference it
\* writes points to the identity of an object it wrote.
C15_OneResourcePerEntry ==
    (last.op = "save" /\ \E r \in text_refs : r.uses = 2) =>
        /\ IsOk(last.ret)
        /\ \A r \in text_refs : r.uses = 2 => Cardinality(ResourcesFor(r.font)) = 1
        /\ \A j \in DOMAIN target : \A ref \in target[j].refs :
              \E k \in DOMAIN target : target[k].id = ref

\* C16: the document has at least one page in every reachable state: page
\* index 0 resolves through get_page, and save is never called on a document
\* without pages.
C16_AtLeastOnePage ==
    /\ Len(pages) >= 1
    /\ IsOk(get_page(pages, 0))
    /\ last.op = "save" => Len(pages) >= 1

\* save was called on a document that holds its initial page only, without layers.
C16_Witness ==
    /\ last.op = "save"
    /\ Len(pages) = 1
    /\ pages[1].layers = <<>>

\* No page of ps other than that of index p differs in qs.
OtherPagesKept(ps, qs, p) ==
    /\ Len(qs) = Len(ps)
    /\ \A i \in DOMAIN ps : i # p + 1 => qs[i] = ps[i]

\* C17: add_page, add_layer and add_marker leave the content registry and the
\* current marker unchanged and change no page or layer other than the one
\* addressed; add_arbitrary_content and add_font leave pages, layers, markers
\* and the current marker unchanged.
C17_Frame ==
    [][/\ last'.op \in {"add_page", "add_layer", "add_marker"} =>
             /\ contents' = contents
             /\ current_marker' = current_marker
       /\ last'.op = "add_page" => \A i \in DOMAIN pages : pages'[i] = pages[i]
       /\ last'.op = "add_layer" =>
             /\ OtherPagesKept(pages, pages', last'.arg[2])
             /\ IsOk(last'.ret) =>
                   LET p == last'.arg[2] + 1
                   IN  /\ pages'[p].width = pages[p].width
                       /\ pages'[p].height = pages[p].height
                       /\ IsPrefix(pages[p].layers, pages'[p].layers)
       /\ last'.op = "add_marker" =>
             /\ OtherPagesKept(pages, pages', last'.arg[2][1])
             /\ IsOk(last'.ret) =>
                   LET p == last'.arg[2][1] + 1
                       l == last'.arg[2][2] + 1
                   IN  /\ pages'[p].width = pages[p].width
                       /\ pages'[p].height = pages[p].height
                       /\ Len(pages'[p].layers) = Len(pages[p].layers)
                       /\ \A i \in DOMAIN pages[p].layers :
                             i # l => pages'[p].layers[i] = pages[p].layers[i]
                       /\ pages'[p].layers[l].name = pages[p].layers[l].name
       /\ last'.op \in RegistrationOps =>
             /\ pages' = pages
             /\ current_marker' = current_marker]_vars

\* A layer was added to the second page of a document whose first page has a
\* layer and whose current marker was moved.
C17_Witness ==
    /\ last.op = "add_layer"
    /\ IsOk(last.ret)
    /\ last.arg[2] = 1
    /\ LayerInRange(pages, 0, 0)
    /\ current_marker # <<0, 0, 0>>

====
